---- MODULE Spec2Model ----
(***************************************************************************)
(* Model of src/orchestrator.py: WhisperRecognizer (audio device, lazy     *)
(* stream, fixed-length recording, normalisation, transcription) and       *)
(* SpeechHandler (logging wrapper around a recognizer).                    *)
(*                                                                         *)
(* The capture device and the transcription model are external: each of    *)
(* their calls either returns or raises, chosen nondeterministically.      *)
(***************************************************************************)
EXTENDS Integers, Sequences, FiniteSets

(***************************************************************************)
(* Program constants (WhisperRecognizer.__init__).                         *)
(***************************************************************************)
RATE == 16000

CHUNK == 1024

\* Divisor of the float conversion, 32768.0 = 2^NormShift.
NormShift == 15

(***************************************************************************)
(* Bounds of the model.                                                    *)
(***************************************************************************)
\* record_seconds ranges over StepMs, 2*StepMs, ..., MaxSteps*StepMs (in ms).
StepMs == 50

MaxSteps == 4

\* WhisperRecognizer.listen() calls in one behaviour.
MaxCalls == 3

\* SpeechHandler instances constructed in one behaviour.
MaxHandlers == 2

\* SpeechHandler.listen() calls in one behaviour.
MaxHandlerCalls == 2

Durations == {k * StepMs : k \in 1..MaxSteps}

(***************************************************************************)
(* The capture device: stream.read(CHUNK) returns 2*CHUNK bytes (paInt16,  *)
(* one channel) or raises.  A returned chunk is filled with one repeated   *)
(* little-endian sample (lo, hi).                                          *)
(***************************************************************************)
DevicePatterns == {<<0, 0>>, <<0, 128>>, <<255, 127>>}

\* A read that raises.
ReadFails == [ok |-> FALSE, lo |-> 0, hi |-> 0]

ReadOutcomes ==
    {[ok |-> TRUE, lo |-> p[1], hi |-> p[2]] : p \in DevicePatterns} \cup {ReadFails}

ChunkBytes(r) == [i \in 1..(2 * CHUNK) |-> IF i % 2 = 1 THEN r.lo ELSE r.hi]

(***************************************************************************)
(* np.frombuffer(data, dtype=np.int16): two's-complement little-endian.    *)
(***************************************************************************)
Int16(lo, hi) ==
    LET u == lo + 256 * hi
    IN  IF u >= 32768 THEN u - 65536 ELSE u

FromBuffer(data) ==
    [i \in 1..(Len(data) \div 2) |-> Int16(data[2 * i - 1], data[2 * i])]

(***************************************************************************)
(* A binary floating-point number m * 2^e, m odd or m = e = 0.  int16      *)
(* values and their quotients by 2^15 are exact in float32.                *)
(***************************************************************************)
RECURSIVE Reduce(_, _)
Reduce(m, e) ==
    IF m = 0 THEN [m |-> 0, e |-> 0]
    ELSE IF m % 2 = 0 THEN Reduce(m \div 2, e + 1)
    ELSE [m |-> m, e |-> e]

\* .astype(np.float32)
AsFloat32(s) == Reduce(s, 0)

\* A variant without the division.
DivNormMissing(x) == x

\* x / 32768.0
DivNorm(x) == IF x.m = 0 THEN x ELSE [m |-> x.m, e |-> x.e - NormShift]

Normalize(samples) == [i \in 1..Len(samples) |-> DivNorm(AsFloat32(samples[i]))]

(***************************************************************************)
(* The read loop of _record_audio (lines 53-60): range(0, int(RATE / CHUNK *)
(* * RECORD_SECONDS)) iterations, a failed read is skipped.                *)
(***************************************************************************)
\* int(RATE / CHUNK * RECORD_SECONDS), record_seconds given in milliseconds.
NumReads(ms) == (RATE * ms) \div (CHUNK * 1000)

\* A variant that leaves the loop at the first failed read.
RECURSIVE ReadLoopAborting(_, _, _)
ReadLoopAborting(reads, i, frames) ==
    IF i > Len(reads) THEN [frames |-> frames, attempts |-> i - 1]
    ELSE IF ~reads[i].ok THEN [frames |-> frames, attempts |-> i]
    ELSE ReadLoopAborting(reads, i + 1,
                          Append(frames, FromBuffer(ChunkBytes(reads[i]))))

\* Iteration i and the following ones; frames holds the chunks appended so far.
RECURSIVE ReadLoopFrom(_, _, _)
ReadLoopFrom(reads, i, frames) ==
    IF i > Len(reads) THEN [frames |-> frames, attempts |-> i - 1]
    ELSE IF ~reads[i].ok THEN ReadLoopFrom(reads, i + 1, frames)
    ELSE ReadLoopFrom(reads, i + 1, Append(frames, FromBuffer(ChunkBytes(reads[i]))))

ReadLoopAbortingAll(reads) == ReadLoopAborting(reads, 1, <<>>)

ReadLoop(reads) == ReadLoopFrom(reads, 1, <<>>)

\* np.concatenate(frames); raises ValueError on an empty list.
RECURSIVE Concatenate(_)
Concatenate(frames) ==
    IF frames = <<>> THEN <<>> ELSE Head(frames) \o Concatenate(Tail(frames))

(***************************************************************************)
(* _record_audio after the stream is available (lines 53-64).  reads[i] is *)
(* the outcome of the i-th stream.read.                                    *)
(***************************************************************************)
\* Lines 62-64: the frames concatenated and converted.
Converted(attempts, raw) ==
    [raised |-> FALSE, attempts |-> attempts, raw |-> raw, buffer |-> Normalize(raw)]

FramesResult(loop) ==
    IF loop.frames = <<>>
    THEN [raised |-> TRUE, attempts |-> loop.attempts, raw |-> <<>>, buffer |-> <<>>]
    ELSE Converted(loop.attempts, Concatenate(loop.frames))

RecordFrames(reads) == FramesResult(ReadLoop(reads))

ReadSeqs(ms) == [1..NumReads(ms) -> ReadOutcomes]

\* Every read-outcome sequence a configured duration admits.
AllReadSeqs == UNION {ReadSeqs(ms) : ms \in Durations}

\* _record_audio's read loop and conversion on each of them.
FramesTable == {<<reads, RecordFrames(reads)>> : reads \in AllReadSeqs}

FramesOf(reads) == (CHOOSE p \in FramesTable : p[1] = reads)[2]

(***************************************************************************)
(* State.                                                                  *)
(***************************************************************************)
VARIABLES
    wr,         \* the WhisperRecognizer object: its attributes
    dev,        \* the audio device behind it: PyAudio handle and stream
    calls,      \* WhisperRecognizer.listen() calls made so far
    call,       \* what the last WhisperRecognizer call did and returned
    handlers,   \* the SpeechHandler instances: the recognizer each one wraps
    loggerHandlers, \* FileHandlers attached to the logger "SpeechHandler"
    log,        \* logs/speech.log: its lines, in order
    hcalls,     \* SpeechHandler.listen() calls made so far
    hcall,      \* what the last SpeechHandler.listen() did and returned
    rsReads,    \* RecordSpec: the device's read outcomes of the recording
    rsOut       \* RecordSpec: what _record_audio returned

vars == <<wr, dev, calls, call, handlers, loggerHandlers, log, hcalls, hcall,
          rsReads, rsOut>>

recVars == <<wr, dev, calls, call>>

logVars == <<handlers, loggerHandlers, log, hcalls, hcall>>

rsVars == <<rsReads, rsOut>>

Unborn == [phase |-> "unborn", hasAudio |-> FALSE, hasStream |-> FALSE,
           stream |-> "None", RECORD_SECONDS |-> 0]

NoDevice == [audio |-> FALSE, terminated |-> FALSE, openCalls |-> 0,
             openStreams |-> 0, stopped |-> FALSE, closed |-> FALSE]

NoCall == [op |-> "none", openFailed |-> FALSE, attempts |-> 0, successes |-> 0,
           samples |-> 0, recordRaised |-> FALSE, transcribed |-> FALSE,
           transcribeLen |-> 0, modelText |-> <<>>, modelRaised |-> FALSE,
           ret |-> <<>>, escaped |-> FALSE]

NoHCall == [op |-> "none", kind |-> "none", fileHandlers |-> 0, before |-> 0,
            atInvoke |-> 0, recognizerRaised |-> FALSE, recognizerRet |-> <<>>,
            ret |-> <<>>, escaped |-> FALSE]

NoOut == [done |-> FALSE, raised |-> FALSE, attempts |-> 0, raw |-> <<>>,
          buffer |-> <<>>]

(***************************************************************************)
(* WhisperRecognizer.__init__ (lines 19-33).  PyAudio() and                *)
(* whisper.load_model() may raise; the attributes assigned before the      *)
(* raise stay on the object.                                               *)
(***************************************************************************)
InitObject(ms, audioOK, modelOK) ==
    IF ~audioOK
    THEN [Unborn EXCEPT !.phase = "initfailed", !.RECORD_SECONDS = ms]
    ELSE IF ~modelOK
    THEN [Unborn EXCEPT !.phase = "initfailed", !.RECORD_SECONDS = ms,
                        !.hasAudio = TRUE]
    ELSE [Unborn EXCEPT !.phase = "live", !.RECORD_SECONDS = ms,
                        !.hasAudio = TRUE, !.hasStream = TRUE]

(***************************************************************************)
(* The lazy open of _record_audio (lines 44-51).                           *)
(***************************************************************************)
\* A variant that opens a stream on every call.
EnsureStreamAlways(w, d, openOK) ==
    IF openOK
    THEN [wr |-> [w EXCEPT !.stream = "Stream"],
          dev |-> [d EXCEPT !.openCalls = @ + 1, !.openStreams = @ + 1],
          raised |-> FALSE]
    ELSE [wr |-> w, dev |-> [d EXCEPT !.openCalls = @ + 1], raised |-> TRUE]

EnsureStream(w, d, openOK) ==
    IF w.stream = "None"
    THEN IF openOK
         THEN [wr |-> [w EXCEPT !.stream = "Stream"],
               dev |-> [d EXCEPT !.openCalls = @ + 1, !.openStreams = @ + 1],
               raised |-> FALSE]
         ELSE [wr |-> w, dev |-> [d EXCEPT !.openCalls = @ + 1], raised |-> TRUE]
    ELSE [wr |-> w, dev |-> d, raised |-> FALSE]

(***************************************************************************)
(* _record_audio (lines 42-64).                                            *)
(***************************************************************************)
RecordAudio(w, d, openOK, reads) ==
    LET s == EnsureStream(w, d, openOK)
    IN  IF s.raised
        THEN [wr |-> s.wr, dev |-> s.dev, openFailed |-> TRUE, raised |-> TRUE,
              attempts |-> 0, raw |-> <<>>, buffer |-> <<>>]
        ELSE LET f == FramesOf(reads)
             IN  [wr |-> s.wr, dev |-> s.dev, openFailed |-> FALSE,
                  raised |-> f.raised, attempts |-> f.attempts, raw |-> f.raw,
                  buffer |-> f.buffer]

(***************************************************************************)
(* str.strip(): leading and trailing whitespace removed.  A text is a      *)
(* sequence of characters.                                                 *)
(***************************************************************************)
Whitespace == {" ", "\t", "\n"}

RECURSIVE LStrip(_)
LStrip(t) == IF t # <<>> /\ Head(t) \in Whitespace THEN LStrip(Tail(t)) ELSE t

RECURSIVE RStrip(_)
RStrip(t) ==
    IF t # <<>> /\ t[Len(t)] \in Whitespace
    THEN RStrip(SubSeq(t, 1, Len(t) - 1))
    ELSE t

\* A variant that strips the left end only (str.lstrip()).
StripLeftOnly(t) == LStrip(t)

Strip(t) == RStrip(LStrip(t))

(***************************************************************************)
(* The transcription model: model.transcribe(...) returns a result whose   *)
(* "text" is one of ModelTexts, or raises.                                 *)
(***************************************************************************)
ModelTexts ==
    { <<" ", "h", "e", "l", "l", "o", " ">>,
      <<"h", "i", " ", "y", "o", "\n">>,
      <<"\t", " ">>,
      <<>> }

ModelOutcomes ==
    {[raises |-> FALSE, text |-> t] : t \in ModelTexts}
        \cup {[raises |-> TRUE, text |-> <<>>]}

Successes(reads) == Cardinality({i \in DOMAIN reads : reads[i].ok})

(***************************************************************************)
(* The try block of WhisperRecognizer.listen (lines 69-79).                *)
(***************************************************************************)
ListenTry(w, d, openOK, reads, m) ==
    LET rec == RecordAudio(w, d, openOK, reads)
        base == [NoCall EXCEPT !.op = "listen",
                               !.openFailed = rec.openFailed,
                               !.attempts = rec.attempts,
                               !.successes = IF rec.openFailed THEN 0
                                             ELSE Successes(reads),
                               !.recordRaised = rec.raised]
    IN  IF rec.raised
        THEN [wr |-> rec.wr, dev |-> rec.dev, raised |-> TRUE, value |-> <<>>,
              call |-> base]
        ELSE LET c == [base EXCEPT !.samples = Len(rec.buffer),
                                   !.transcribed = TRUE,
                                   !.transcribeLen = Len(rec.buffer),
                                   !.modelRaised = m.raises,
                                   !.modelText = m.text]
             IN  IF m.raises
                 THEN [wr |-> rec.wr, dev |-> rec.dev, raised |-> TRUE,
                       value |-> <<>>, call |-> c]
                 ELSE [wr |-> rec.wr, dev |-> rec.dev, raised |-> FALSE,
                       value |-> Strip(m.text), call |-> c]

(***************************************************************************)
(* WhisperRecognizer.listen (lines 66-84): the except clause turns every   *)
(* exception of the try block into the return value "".                    *)
(***************************************************************************)
\* A variant whose except clause lets the exception through.
WhisperListenRaising(w, d, openOK, reads, m) ==
    LET t == ListenTry(w, d, openOK, reads, m)
    IN  [wr |-> t.wr, dev |-> t.dev,
         call |-> [t.call EXCEPT !.ret = t.value, !.escaped = t.raised]]

WhisperListen(w, d, openOK, reads, m) ==
    LET t == ListenTry(w, d, openOK, reads, m)
    IN  [wr |-> t.wr, dev |-> t.dev,
         call |-> [t.call EXCEPT !.ret = IF t.raised THEN <<>> ELSE t.value,
                                 !.escaped = FALSE]]

(***************************************************************************)
(* WhisperRecognizer.__del__ (lines 35-40).  Reading a missing attribute   *)
(* raises AttributeError; stop_stream() and close() may raise.  An         *)
(* exception ends the destructor where it is raised.                       *)
(***************************************************************************)
DelObject(w, d, stopOK, closeOK) ==
    IF ~w.hasStream THEN d
    ELSE IF w.stream = "None" THEN [d EXCEPT !.terminated = TRUE]
    ELSE IF ~stopOK THEN d
    ELSE IF ~closeOK THEN [d EXCEPT !.stopped = TRUE]
    ELSE [d EXCEPT !.stopped = TRUE, !.closed = TRUE,
                   !.openStreams = @ - 1, !.terminated = TRUE]

(***************************************************************************)
(* The log sink.  A call on the logger is written once by every            *)
(* FileHandler attached to it; each one appends to logs/speech.log         *)
(* (lines 106-113).                                                        *)
(***************************************************************************)
Emit(lg, n, level, msg) == lg \o [i \in 1..n |-> [level |-> level, msg |-> msg]]

StartLine == [level |-> "INFO", msg |-> <<"Starting to listen...">>]

HeardLine(text) == [level |-> "INFO", msg |-> <<"Heard: ", text>>]

ErrorLine(e) == [level |-> "ERROR", msg |-> <<"Error while listening: ", e>>]

InitLine == [level |-> "INFO", msg |-> <<"Speech Handler initialized">>]

(***************************************************************************)
(* A SpeechRecognizer other than WhisperRecognizer (lines 8-14): its       *)
(* listen() returns a text or raises.                                      *)
(***************************************************************************)
StubOutcomes ==
    { [raises |-> FALSE, text |-> <<"o", "k">>],
      [raises |-> TRUE, text |-> <<"b", "o", "o", "m">>] }

NoStub == [raises |-> FALSE, text |-> <<>>]

(***************************************************************************)
(* self.recognizer.listen() as SpeechHandler.listen sees it (line 119).    *)
(***************************************************************************)
RecognizerListen(kind, w, d, c, openOK, reads, m, stub) ==
    IF kind = "whisper"
    THEN LET r == WhisperListen(w, d, openOK, reads, m)
         IN  [wr |-> r.wr, dev |-> r.dev, call |-> r.call,
              raised |-> r.call.escaped, value |-> r.call.ret, error |-> <<>>]
    ELSE [wr |-> w, dev |-> d, call |-> c,
          raised |-> stub.raises,
          value |-> IF stub.raises THEN <<>> ELSE stub.text,
          error |-> IF stub.raises THEN stub.text ELSE <<>>]

(***************************************************************************)
(* SpeechHandler.listen (lines 115-124), given the recognizer's outcome r. *)
(***************************************************************************)
HandlerListen(kind, n, lg, r) ==
    LET l1 == Emit(lg, n, StartLine.level, StartLine.msg)
        h  == [NoHCall EXCEPT !.op = "listen", !.kind = kind, !.fileHandlers = n,
                              !.before = Len(lg), !.atInvoke = Len(l1),
                              !.recognizerRaised = r.raised,
                              !.recognizerRet = r.value]
    IN  IF r.raised
        THEN [log |-> Emit(l1, n, ErrorLine(r.error).level, ErrorLine(r.error).msg),
              hcall |-> [h EXCEPT !.ret = <<>>]]
        ELSE [log |-> Emit(l1, n, HeardLine(r.value).level, HeardLine(r.value).msg),
              hcall |-> [h EXCEPT !.ret = r.value]]

(***************************************************************************)
(* SpeechHandler.__init__ and _setup_logging (lines 89-113): one more      *)
(* FileHandler on the process-wide logger, then one info call.             *)
(***************************************************************************)
SetupLogging(n) == n + 1

(***************************************************************************)
(* Input sets of the lifecycle actions: the device yields a chunk of       *)
(* zero samples or raises.                                                 *)
(***************************************************************************)
SilentRead == [ok |-> TRUE, lo |-> 0, hi |-> 0]

LifeReadSeqs(ms) == [1..NumReads(ms) -> {SilentRead, ReadFails}]

(***************************************************************************)
(* Actions.                                                                *)
(***************************************************************************)
Construct ==
    /\ wr.phase = "unborn"
    /\ \E ms \in Durations, audioOK \in BOOLEAN, modelOK \in BOOLEAN :
          /\ wr' = InitObject(ms, audioOK, modelOK)
          /\ dev' = [NoDevice EXCEPT !.audio = audioOK]
          /\ call' = [NoCall EXCEPT !.op = "init",
                                    !.escaped = ~(audioOK /\ modelOK)]
    /\ UNCHANGED <<calls, logVars, rsVars>>

Listen ==
    /\ wr.phase = "live"
    /\ calls < MaxCalls
    /\ \E openOK \in BOOLEAN, reads \in LifeReadSeqs(wr.RECORD_SECONDS),
          m \in ModelOutcomes :
          \E r \in {WhisperListen(wr, dev, openOK, reads, m)} :
              /\ wr' = r.wr
              /\ dev' = r.dev
              /\ call' = r.call
    /\ calls' = calls + 1
    /\ UNCHANGED <<logVars, rsVars>>

Del ==
    /\ wr.phase \in {"live", "initfailed"}
    /\ \E stopOK \in BOOLEAN, closeOK \in BOOLEAN :
          dev' = DelObject(wr, dev, stopOK, closeOK)
    /\ wr' = [wr EXCEPT !.phase = "dead"]
    /\ call' = [NoCall EXCEPT !.op = "del"]
    /\ UNCHANGED <<calls, logVars, rsVars>>

NewHandler ==
    /\ Len(handlers) < MaxHandlers
    /\ \E kind \in {"whisper", "stub"} :
          /\ kind = "whisper" => wr.phase = "live"
          /\ handlers' = Append(handlers, kind)
    /\ loggerHandlers' = SetupLogging(loggerHandlers)
    /\ log' = Emit(log, loggerHandlers', InitLine.level, InitLine.msg)
    /\ hcall' = [NoHCall EXCEPT !.op = "init"]
    /\ UNCHANGED <<recVars, hcalls, rsVars>>

HandlerListenCall ==
    /\ hcalls < MaxHandlerCalls
    /\ \E h \in DOMAIN handlers :
          /\ handlers[h] = "whisper" => wr.phase = "live" /\ calls < MaxCalls
          /\ \E openOK \in BOOLEAN, reads \in LifeReadSeqs(wr.RECORD_SECONDS),
                m \in ModelOutcomes, stub \in StubOutcomes :
                \E r \in {RecognizerListen(handlers[h], wr, dev, call,
                                          openOK, reads, m, stub)} :
                \E o \in {HandlerListen(handlers[h], loggerHandlers, log, r)} :
                    /\ wr' = r.wr
                    /\ dev' = r.dev
                    /\ call' = r.call
                    /\ log' = o.log
                    /\ hcall' = o.hcall
          /\ calls' = IF handlers[h] = "whisper" THEN calls + 1 ELSE calls
    /\ hcalls' = hcalls + 1
    /\ UNCHANGED <<handlers, loggerHandlers, rsVars>>

RecordAudioCall ==
    /\ ~rsOut.done
    /\ wr.phase = "live"
    /\ \E openOK \in BOOLEAN :
          \E r \in {RecordAudio(wr, dev, openOK, rsReads)} :
              /\ wr' = r.wr
              /\ dev' = r.dev
              /\ rsOut' = [done |-> TRUE, raised |-> r.raised,
                           attempts |-> r.attempts, raw |-> r.raw,
                           buffer |-> r.buffer]
              /\ call' = [NoCall EXCEPT !.op = "record",
                                        !.openFailed = r.openFailed]
    /\ UNCHANGED <<calls, logVars, rsReads>>

(***************************************************************************)
(* Spec: the lifecycle of one WhisperRecognizer.                           *)
(***************************************************************************)
Init ==
    /\ wr = Unborn
    /\ dev = NoDevice
    /\ calls = 0
    /\ call = NoCall
    /\ handlers = <<>>
    /\ loggerHandlers = 0
    /\ log = <<>>
    /\ hcalls = 0
    /\ hcall = NoHCall
    /\ rsReads = <<>>
    /\ rsOut = NoOut

Next == Construct \/ Listen \/ Del

Spec == Init /\ [][Next]_vars

(***************************************************************************)
(* HandlerSpec: SpeechHandler instances around a constructed               *)
(* WhisperRecognizer or another recognizer.                                *)
(***************************************************************************)
HandlerInit ==
    /\ \E ms \in Durations : wr = InitObject(ms, TRUE, TRUE)
    /\ dev = [NoDevice EXCEPT !.audio = TRUE]
    /\ calls = 0
    /\ call = [NoCall EXCEPT !.op = "init"]
    /\ handlers = <<>>
    /\ loggerHandlers = 0
    /\ log = <<>>
    /\ hcalls = 0
    /\ hcall = NoHCall
    /\ rsReads = <<>>
    /\ rsOut = NoOut

HandlerNext == NewHandler \/ HandlerListenCall

HandlerSpec == HandlerInit /\ [][HandlerNext]_vars

(***************************************************************************)
(* RecordSpec: one _record_audio call on a constructed recognizer, for     *)
(* every configured duration and every sequence of read outcomes.          *)
(***************************************************************************)
RecordInit ==
    /\ \E ms \in Durations :
          /\ wr = InitObject(ms, TRUE, TRUE)
          /\ rsReads \in ReadSeqs(ms)
    /\ dev = [NoDevice EXCEPT !.audio = TRUE]
    /\ calls = 0
    /\ call = [NoCall EXCEPT !.op = "init"]
    /\ handlers = <<>>
    /\ loggerHandlers = 0
    /\ log = <<>>
    /\ hcalls = 0
    /\ hcall = NoHCall
    /\ rsOut = NoOut

RecordNext == RecordAudioCall

RecordSpec == RecordInit /\ [][RecordNext]_vars

(***************************************************************************)
(* Helpers of the properties.                                              *)
(***************************************************************************)
Chars == UNION {{t[i] : i \in DOMAIN t} : t \in ModelTexts}
            \cup {"o", "k", "b", "m"}

IsText(x) == /\ DOMAIN x = 1..Len(x)
             /\ \A i \in DOMAIN x : x[i] \in Chars

\* r is t without its leading and trailing whitespace.
IsStripOf(r, t) ==
    \E a \in 0..Len(t), b \in 0..Len(t) :
        /\ a + Len(r) + b = Len(t)
        /\ \A i \in 1..a : t[i] \in Whitespace
        /\ \A i \in (Len(t) - b + 1)..Len(t) : t[i] \in Whitespace
        /\ \A i \in 1..Len(r) : r[i] = t[a + i]
        /\ r # <<>> => r[1] \notin Whitespace /\ r[Len(r)] \notin Whitespace

RECURSIVE Pow2(_)
Pow2(n) == IF n <= 0 THEN 1 ELSE 2 * Pow2(n - 1)

Abs(x) == IF x < 0 THEN -x ELSE x

\* The float x equals s / 32768.
IsQuotient(x, s) ==
    IF x.e + 15 >= 0 THEN x.m * Pow2(x.e + 15) = s
    ELSE x.m = s * Pow2(-(x.e + 15))

\* The float x lies in [-1.0, 1.0].
InUnitRange(x) ==
    IF x.e >= 0 THEN Abs(x.m) * Pow2(x.e) <= 1 ELSE Abs(x.m) <= Pow2(-x.e)

OkReads(reads) == SelectSeq(reads, LAMBDA r : r.ok)

\* n = floor(RATE / CHUNK * D) for D = ms milliseconds.
IsFloorOfReads(n, ms) ==
    /\ n * CHUNK * 1000 <= RATE * ms
    /\ RATE * ms < (n + 1) * CHUNK * 1000

ErrorLinesSince(k) ==
    Cardinality({i \in (k + 1)..Len(log) : log[i].level = "ERROR"})

Hello == <<"h", "e", "l", "l", "o">>

(***************************************************************************)
(* C1: for every outcome of the device and of the model, both              *)
(* WhisperRecognizer.listen() and SpeechHandler.listen() return a string   *)
(* and never let an exception reach the caller; whenever recording or      *)
(* transcription raised, the returned string is "".                        *)
(***************************************************************************)
C1_ListenNeverRaises ==
    /\ call.op = "listen" =>
          /\ ~call.escaped
          /\ IsText(call.ret)
          /\ (call.recordRaised \/ call.modelRaised) => call.ret = <<>>
    /\ hcall.op = "listen" =>
          /\ ~hcall.escaped
          /\ ~hcall.recognizerRaised => IsText(hcall.ret)
          /\ hcall.recognizerRaised => hcall.ret = <<>>
          /\ (hcall.kind = "whisper" /\ (call.recordRaised \/ call.modelRaised))
                => (hcall.ret = <<>> /\ ~hcall.recognizerRaised)

C1_Witness ==
    /\ hcall.op = "listen"
    /\ hcall.kind = "whisper"
    /\ call.op = "listen"
    /\ call.successes >= 1
    /\ call.modelRaised
    /\ call.ret = <<>>
    /\ hcall.ret = <<>>

(***************************************************************************)
(* C2: when a WhisperRecognizer is destroyed, after any earlier events     *)
(* (failed construction, failed listen() calls, a failure of stop_stream() *)
(* or close() in the teardown), an open stream is stopped and closed and   *)
(* the PyAudio instance is terminated.                                     *)
(***************************************************************************)
C2_TeardownReleases ==
    wr.phase = "dead" =>
        /\ wr.stream = "Stream" => dev.stopped /\ dev.closed
        /\ dev.openStreams = 0
        /\ dev.audio => dev.terminated

(***************************************************************************)
(* C3: no stream is open before the first listen(); at most one stream is  *)
(* open at any time; once a stream has been opened, audio.open() is never  *)
(* called again and the stream stays open until the teardown.              *)
(***************************************************************************)
C3_SingleStreamReused ==
    /\ [](calls = 0 => (dev.openStreams = 0 /\ dev.openCalls = 0
                        /\ wr.stream = "None"))
    /\ [](dev.openStreams <= 1)
    /\ [][wr.stream = "Stream" => dev'.openCalls = dev.openCalls]_vars
    /\ [][(dev.openStreams = 1 /\ wr'.phase = "live")
             => (dev'.openStreams = 1 /\ wr'.stream = "Stream")]_vars

C3_Witness ==
    /\ call.op = "listen"
    /\ calls >= 3
    /\ dev.openCalls = 2
    /\ dev.openStreams = 1
    /\ wr.stream = "Stream"

(***************************************************************************)
(* C4: if every chunk read of a recording fails, _record_audio completes   *)
(* normally with an empty buffer, the transcription is invoked with that   *)
(* empty buffer, and listen() returns "".                                  *)
(***************************************************************************)
C4_AllReadsFailEmptyBuffer ==
    (call.op = "listen" /\ ~call.openFailed /\ call.attempts >= 1
        /\ call.successes = 0)
    => (/\ ~call.recordRaised
        /\ call.transcribed
        /\ call.transcribeLen = 0
        /\ call.ret = <<>>)

(***************************************************************************)
(* C5: a SpeechHandler around a WhisperRecognizer whose device raises on   *)
(* every chunk read: one listen() returns "" and appends exactly one       *)
(* ERROR line to the log.                                                  *)
(***************************************************************************)
C5_OneErrorLine ==
    (hcall.op = "listen" /\ hcall.kind = "whisper" /\ ~call.openFailed
        /\ call.attempts >= 1 /\ call.successes = 0)
    => (hcall.ret = <<>> /\ ErrorLinesSince(hcall.before) = 1)

(***************************************************************************)
(* C6: when at least one chunk is read and the model returns a result,     *)
(* WhisperRecognizer.listen() returns the result's "text" without its      *)
(* leading and trailing whitespace (" hello " gives "hello"), and          *)
(* SpeechHandler.listen() returns the recognizer's string unchanged.       *)
(***************************************************************************)
C6_StrippedTextReturned ==
    /\ (call.op = "listen" /\ call.successes >= 1 /\ ~call.modelRaised) =>
          /\ call.transcribed
          /\ IsStripOf(call.ret, call.modelText)
          /\ call.modelText = <<" ">> \o Hello \o <<" ">> => call.ret = Hello
    /\ (hcall.op = "listen" /\ ~hcall.recognizerRaised) =>
          /\ hcall.ret = hcall.recognizerRet
          /\ hcall.kind = "whisper" => hcall.ret = call.ret

C6_Witness ==
    /\ hcall.op = "listen"
    /\ hcall.kind = "whisper"
    /\ call.successes >= 1
    /\ call.modelText = <<" ">> \o Hello \o <<" ">>
    /\ call.ret = Hello
    /\ hcall.ret = Hello

(***************************************************************************)
(* C7: for every duration D > 0, also D < CHUNK / RATE, when all reads     *)
(* succeed _record_audio returns a buffer whose sample count differs from  *)
(* D * RATE by less than CHUNK, after floor(RATE / CHUNK * D) reads.       *)
(***************************************************************************)
C7_SampleCountProportional ==
    (rsOut.done /\ ~call.openFailed /\ \A i \in DOMAIN rsReads : rsReads[i].ok)
    => (/\ ~rsOut.raised
        /\ Abs(1000 * Len(rsOut.buffer) - wr.RECORD_SECONDS * RATE) < 1000 * CHUNK
        /\ IsFloorOfReads(rsOut.attempts, wr.RECORD_SECONDS))

(***************************************************************************)
(* C8: normalisation maps every signed 16-bit sample s to s / 32768, so    *)
(* every output sample lies in [-1.0, 1.0]; an all-zero input buffer gives *)
(* an all-zero output buffer of the same length.                           *)
(***************************************************************************)
C8_Normalization ==
    (rsOut.done /\ ~rsOut.raised) =>
        /\ Len(rsOut.buffer) = Len(rsOut.raw)
        /\ \A i \in DOMAIN rsOut.raw :
              /\ rsOut.raw[i] \in -32768..32767
              /\ IsQuotient(rsOut.buffer[i], rsOut.raw[i])
              /\ InUnitRange(rsOut.buffer[i])
              /\ rsOut.raw[i] = 0 => rsOut.buffer[i] = [m |-> 0, e |-> 0]

C8_Witness ==
    /\ rsOut.done
    /\ ~rsOut.raised
    /\ \E i \in DOMAIN rsOut.raw : rsOut.raw[i] = -32768
                                   /\ rsOut.buffer[i] = [m |-> -1, e |-> 0]
    /\ \E i \in DOMAIN rsOut.raw : rsOut.raw[i] = 32767
    /\ \E i \in DOMAIN rsOut.raw : rsOut.raw[i] = 0

(***************************************************************************)
(* C9: a failed chunk read does not abort the recording: once the stream   *)
(* is available all floor(RATE / CHUNK * D) reads are attempted, and when  *)
(* at least one succeeds the returned buffer is the concatenation, in read *)
(* order, of exactly the chunks whose reads succeeded.                     *)
(***************************************************************************)
C9_FailedReadsSkipped ==
    (rsOut.done /\ ~call.openFailed) =>
        /\ IsFloorOfReads(rsOut.attempts, wr.RECORD_SECONDS)
        /\ OkReads(rsReads) # <<>> =>
              /\ ~rsOut.raised
              /\ Len(rsOut.raw) = CHUNK * Len(OkReads(rsReads))
              /\ Len(rsOut.buffer) = CHUNK * Len(OkReads(rsReads))
              /\ \A k \in DOMAIN OkReads(rsReads) : \A j \in 1..CHUNK :
                    rsOut.raw[(k - 1) * CHUNK + j]
                        = Int16(OkReads(rsReads)[k].lo, OkReads(rsReads)[k].hi)

C9_Witness ==
    /\ rsOut.done
    /\ ~rsOut.raised
    /\ Len(rsReads) = 3
    /\ rsReads[1].ok /\ ~rsReads[2].ok /\ rsReads[3].ok
    /\ rsReads[1] # rsReads[3]
    /\ rsOut.attempts = 3
    /\ Len(rsOut.buffer) = 2 * CHUNK

(***************************************************************************)
(* C10: each SpeechHandler.listen() appends exactly one "Starting to       *)
(* listen..." line, written before the recognizer is invoked, then exactly *)
(* one outcome line ("Heard: ..." at INFO or "Error while listening: ..."  *)
(* at ERROR), however many SpeechHandler instances were constructed.       *)
(***************************************************************************)
C10_TwoLinesPerListen ==
    hcall.op = "listen" =>
        /\ hcall.atInvoke = hcall.before + 1
        /\ Len(log) = hcall.before + 2
        /\ log[hcall.before + 1] = StartLine
        /\ \/ log[Len(log)] = HeardLine(hcall.ret)
           \/ /\ log[Len(log)].level = "ERROR"
              /\ log[Len(log)].msg[1] = ErrorLine(<<>>).msg[1]

====
